---- MODULE Spec2Model ----
(***************************************************************************)
(* Model of notch_filter.py: main() (config.json -> normalisation ->       *)
(* call of notch_filter -> product.json) and notch_filter() itself.        *)
(*                                                                         *)
(* Python values are dynamically typed; every value is a record with the   *)
(* same four fields so that "" , None, numbers and arrays can be compared. *)
(* A dict is a function whose DOMAIN is the set of keys it holds.          *)
(***************************************************************************)
EXTENDS Integers, Sequences, FiniteSets, TLC

VARIABLES
    pc,           \* position in main() / notch_filter()
    cfgFile,      \* content of config.json (the input)
    fifReadable,  \* whether mne.io.read_raw_fif succeeds on config['fif']
    eventsExists, \* os.path.exists(events_file)
    rawIn,        \* shape of the input recording
    config,       \* the dict `config` of main()
    product,      \* dict_json_product['brainlife']
    productFile,  \* product.json: number of writes by this run and last content
    eventsOut,    \* out_dir_notch_filter/events.tsv written by this run
    megOut,       \* out_dir_notch_filter/meg.fif written by this run
    err,          \* the exception that ended the run, "none" if none
    errAt,        \* the statement that raised it
    nfArgs,       \* the arguments bound to notch_filter's parameters
    freqs,        \* local `freqs` of notch_filter
    libCalls,     \* number of calls of raw.notch_filter made
    libArgs       \* what the last call of raw.notch_filter received

vars == <<pc, cfgFile, fifReadable, eventsExists, rawIn, config, product,
          productFile, eventsOut, megOut, err, errAt, nfArgs, freqs,
          libCalls, libArgs>>

----------------------------------------------------------------------------
(* Bounds *)

MaxStart == 3
MaxEnd == 6
MaxStep == 2
MaxChan == 1
MaxTimes == 1

----------------------------------------------------------------------------
(* Python values *)

None == [tag |-> "none", num |-> 0, str |-> "", arr |-> <<>>]
PyInt(n) == [tag |-> "int", num |-> n, str |-> "", arr |-> <<>>]
PyStr(s) == [tag |-> "str", num |-> 0, str |-> s, arr |-> <<>>]
PyArray(s) == [tag |-> "array", num |-> 0, str |-> "", arr |-> s]

EmptyDict == [k \in {} |-> None]

\* d[key] = v  on a dict
DictSet(d, key, v) == [k \in (DOMAIN d) \cup {key} |-> IF k = key THEN v ELSE d[k]]

\* del d[key] / d.pop(key) on a dict that holds key
DictDel(d, key) == [k \in (DOMAIN d) \ {key} |-> d[k]]

----------------------------------------------------------------------------
(* notch_filter's signature *)

PassThroughParams ==
    {"param_filter_length", "param_trans_bandwidth", "param_n_jobs",
     "param_p_value", "param_phase", "param_fir_window", "param_fir_design",
     "param_pad"}

NFParams ==
    {"param_freqs_specific_or_start", "param_freqs_end", "param_freqs_step",
     "param_picks", "param_widths", "param_method", "param_iir_parameters",
     "param_mt_bandwidth"} \cup PassThroughParams

\* The call of notch_filter with the keywords of kwargs: Python binds the keywords before the body
\* runs; a keyword that is no parameter, or a parameter without a value
\* (none has a default), is a TypeError.
BindOK(kwargs) == DOMAIN kwargs = NFParams

InjectedKeys == {"_app", "_tid", "_inputs", "_outputs"}

----------------------------------------------------------------------------
(* notch_filter: the frequency target *)

\* The length with the end included.
ArangeLen_inclusive(start, stop, step) ==
    IF step > 0
    THEN IF stop >= start THEN ((stop - start) \div step) + 1 ELSE 0
    ELSE IF stop <= start THEN ((start - stop) \div (0 - step)) + 1 ELSE 0

\* Number of elements of np.arange(start, stop, step) on integers:
\* ceil((stop - start) / step), never negative.
ArangeLen(start, stop, step) ==
    IF step > 0
    THEN IF stop > start THEN ((stop - start - 1) \div step) + 1 ELSE 0
    ELSE IF stop < start THEN ((start - stop - 1) \div (0 - step)) + 1 ELSE 0

\* np.arange(start, stop, step) on integers: start + i * step, i = 0 .. len - 1.
Arange(start, stop, step) ==
    [i \in 1..ArangeLen(start, stop, step) |-> start + (i - 1) * step]

\* np.arange takes step=None as 1.
ArangeStep(step) == IF step = None THEN 1 ELSE step.num

\* What np.arange raises: non-numbers do not subtract or divide (TypeError),
\* a zero step divides by zero.
ArangeError(start, stop, step) ==
    IF start.tag # "int" \/ stop.tag # "int" \/ step.tag \notin {"int", "none"}
    THEN "TypeError"
    ELSE IF ArangeStep(step) = 0 THEN "ZeroDivisionError" ELSE "none"

\* Lines 64-69: the exception the computation of freqs raises, "none" if none.
NotchFreqsError(start, end, step) ==
    IF end # None THEN ArangeError(start, end, step) ELSE "none"

\* Lines 64-69: freqs, when no exception is raised.
NotchFreqs(start, end, step) ==
    IF end # None
    THEN PyArray(Arange(start.num, end.num, ArangeStep(step)))
    ELSE start

\* Lines 71-77: the keywords raw.notch_filter receives.
LibArgsOf(args, f) ==
    [k \in {"freqs", "picks", "notch_widths", "method", "iir_params",
            "mt_bandwidth"} |->
        CASE k = "freqs" -> f
          [] k = "picks" -> args["param_picks"]
          [] k = "notch_widths" -> args["param_widths"]
          [] k = "method" -> args["param_method"]
          [] k = "iir_params" -> args["param_iir_parameters"]
          [] k = "mt_bandwidth" -> args["param_mt_bandwidth"]]

NoFile == [written |-> FALSE, nchan |-> 0, ntimes |-> 0]

\* Lines 71-80: the filter keeps the recording's shape; save writes it.
SavedFile(raw) == [written |-> TRUE, nchan |-> raw.nchan, ntimes |-> raw.ntimes]

----------------------------------------------------------------------------
(* main: the checks and normalisations of config *)

Empty == PyStr("")

InfoMsg == [type |-> "info", msg |-> "Notch filter was applied."]
SuccessMsg == [type |-> "success", msg |-> "Notch filter was applied successfully."]

\* Line 268: config['param_freqs_start'] is read for the report's comment.
CommentsNotchRaises(c) == "param_freqs_start" \notin DOMAIN c

\* The check without the test of the method.
CheckStartRaises_anyMethod(c) == c["param_freqs_specific_or_start"] = Empty

\* Lines 273-278: the ValueError of the start-frequency check.
CheckStartRaises(c) ==
    /\ c["param_freqs_specific_or_start"] = Empty
    /\ c["param_method"] # PyStr("spectrum_fit")

\* Lines 273-274: the assignment made before the method is looked at.
CheckStartAssign(c) ==
    IF c["param_freqs_specific_or_start"] = Empty
    THEN DictSet(c, "param_freqs_specific_or_starts", None)
    ELSE c

\* Lines 281-282
NormFreqsEnd(c) ==
    IF c["param_freqs_end"] = Empty THEN DictSet(c, "param_freqs_end", None) ELSE c

\* Lines 285-286
NormFreqsStep(c) ==
    IF c["param_freqs_step"] = Empty THEN DictSet(c, "param_freqs_step", None) ELSE c

\* Lines 289-290
NormPicks(c) ==
    IF c["param_picks"] = Empty THEN DictSet(c, "param_notch_picks", None) ELSE c

\* Lines 293-294
NormWidths(c) ==
    IF c["param_widths"] = Empty THEN DictSet(c, "param_notch_widths", None) ELSE c

\* Lines 297-298
NormIirParameters(c) ==
    IF c["param_iir_parameters"] = Empty
    THEN DictSet(c, "param_iir_parameters", None)
    ELSE c

\* Lines 301-302
NormMtBandwidth(c) ==
    IF c["param_mt_bandwidth"] = Empty
    THEN DictSet(c, "param_mt_bandwidth", None)
    ELSE c

\* Lines 280-302, in the order of the code.
NormalizeAll(c) ==
    NormMtBandwidth(NormIirParameters(NormWidths(NormPicks(
        NormFreqsStep(NormFreqsEnd(c))))))

\* Line 309: `'_app' and '_tid' and '_inputs' and '_outputs' in config.keys()`;
\* a non-empty string is true, so the value is that of the last operand.
StripCondition(c) == "_outputs" \in DOMAIN c

\* Line 310: the order in which del removes the keys.
DelOrder == <<"_app", "_tid", "_inputs", "_outputs">>

\* Line 310: del stops at the first key the dict does not hold (KeyError).
RECURSIVE DelFrom(_, _)
DelFrom(c, i) ==
    IF i > Len(DelOrder) THEN c
    ELSE IF DelOrder[i] \in DOMAIN c THEN DelFrom(DictDel(c, DelOrder[i]), i + 1)
    ELSE c

\* Line 310 raises KeyError when one of the four keys is missing.
StripRaises(c) ==
    StripCondition(c) /\ \E i \in 1..Len(DelOrder) : DelOrder[i] \notin DOMAIN c

\* Lines 309-311: kwargs.
StripKeys(c) == IF StripCondition(c) THEN DelFrom(c, 1) ELSE c

----------------------------------------------------------------------------
(* Inputs *)

Methods == {PyStr("fir"), PyStr("iir"), PyStr("spectrum_fit")}

\* A config.json holding 'fif', 'events' and every parameter of notch_filter,
\* with the platform's keys `inj` and, when hasFS, a key 'param_freqs_start'.
MkConfig(hasFS, inj, s, e, st, pk, w, ii, mt, m) ==
    [k \in {"fif", "events"} \cup NFParams \cup inj
           \cup (IF hasFS THEN {"param_freqs_start"} ELSE {}) |->
        CASE k = "fif" -> PyStr("meg.fif")
          [] k = "events" -> PyStr("events.tsv")
          [] k = "param_freqs_start" -> PyInt(50)
          [] k = "param_freqs_specific_or_start" -> s
          [] k = "param_freqs_end" -> e
          [] k = "param_freqs_step" -> st
          [] k = "param_picks" -> pk
          [] k = "param_widths" -> w
          [] k = "param_iir_parameters" -> ii
          [] k = "param_mt_bandwidth" -> mt
          [] k = "param_method" -> m
          [] k \in InjectedKeys -> PyStr("brainlife")
          [] OTHER -> PyStr("auto")]

\* The arguments of a direct call of notch_filter.
MkArgs(s, e, st, m) ==
    [k \in NFParams |->
        CASE k = "param_freqs_specific_or_start" -> s
          [] k = "param_freqs_end" -> e
          [] k = "param_freqs_step" -> st
          [] k = "param_method" -> m
          [] k \in {"param_picks", "param_widths", "param_iir_parameters",
                    "param_mt_bandwidth"} -> None
          [] OTHER -> PyStr("auto")]

CfgStartVals == {Empty, PyInt(50), PyInt(60)}
CfgEndVals == {Empty, PyInt(241)}
CfgStepVals == {Empty, PyInt(60)}
CfgPicksVals == {Empty, PyStr("meg")}
CfgWidthsVals == {Empty, PyInt(1)}
CfgIirVals == {Empty, PyStr("butter")}
CfgMtVals == {Empty, PyInt(2)}

NFStartVals == {None} \cup {PyInt(n) : n \in 0..MaxStart} \cup {PyInt(50), PyInt(60)}
NFEndVals == {None} \cup {PyInt(n) : n \in 0..MaxEnd} \cup {PyInt(241)}
NFStepVals == {None} \cup {PyInt(n) : n \in (0 - MaxStep)..MaxStep} \cup {PyInt(60)}

Shapes == [nchan : 1..MaxChan, ntimes : 1..MaxTimes]

NoProductFile == [writes |-> 0, body |-> <<>>]

\* Everything but the inputs, before the program has run.
Fresh ==
    /\ config = EmptyDict
    /\ product = <<>>
    /\ productFile = NoProductFile
    /\ eventsOut = FALSE
    /\ megOut = NoFile
    /\ err = "none"
    /\ errAt = "none"
    /\ freqs = None
    /\ libCalls = 0
    /\ libArgs = EmptyDict

\* The process is started on a config.json and a recording.
Init ==
    /\ pc = "start"
    /\ \E hasFS \in BOOLEAN, inj \in SUBSET InjectedKeys,
          s \in CfgStartVals, e \in CfgEndVals, st \in CfgStepVals,
          pk \in CfgPicksVals, w \in CfgWidthsVals, ii \in CfgIirVals,
          mt \in CfgMtVals, m \in Methods :
            cfgFile = MkConfig(hasFS, inj, s, e, st, pk, w, ii, mt, m)
    /\ fifReadable \in BOOLEAN
    /\ eventsExists \in BOOLEAN
    /\ rawIn \in Shapes
    /\ nfArgs = EmptyDict
    /\ Fresh

\* notch_filter is called directly on a loaded recording.
InitNF ==
    /\ pc = "nf_entry"
    /\ \E s \in NFStartVals, e \in NFEndVals, st \in NFStepVals :
            nfArgs = MkArgs(s, e, st, PyStr("fir"))
    /\ cfgFile = EmptyDict
    /\ fifReadable = TRUE
    /\ eventsExists = FALSE
    /\ rawIn \in Shapes
    /\ Fresh

----------------------------------------------------------------------------
(* Steps *)

Raise(e, at) == pc' = "failed" /\ err' = e /\ errAt' = at
Goto(l) == pc' = l /\ UNCHANGED <<err, errAt>>

\* Lines 250-255
LoadConfig ==
    /\ pc = "start"
    /\ product' = <<>>
    /\ config' = cfgFile
    /\ Goto("read")
    /\ UNCHANGED <<cfgFile, fifReadable, eventsExists, rawIn, productFile,
                   eventsOut, megOut, nfArgs, freqs, libCalls, libArgs>>

\* Lines 257-259
ReadRaw ==
    /\ pc = "read"
    /\ IF "fif" \notin DOMAIN config
       THEN Raise("KeyError", "pop_fif") /\ UNCHANGED config
       ELSE /\ config' = DictDel(config, "fif")
            /\ IF fifReadable THEN Goto("events")
               ELSE Raise("OSError", "read_raw_fif")
    /\ UNCHANGED <<cfgFile, fifReadable, eventsExists, rawIn, product,
                   productFile, eventsOut, megOut, nfArgs, freqs, libCalls,
                   libArgs>>

ShouldCopyEvents_never(exists) == FALSE

\* Line 263: the sidecar is copied when its source exists.
ShouldCopyEvents(exists) == exists

\* Lines 261-264
CopyEvents ==
    /\ pc = "events"
    /\ IF "events" \notin DOMAIN config
       THEN Raise("KeyError", "pop_events") /\ UNCHANGED <<config, eventsOut>>
       ELSE /\ config' = DictDel(config, "events")
            /\ eventsOut' = (eventsOut \/ ShouldCopyEvents(eventsExists))
            /\ Goto("info")
    /\ UNCHANGED <<cfgFile, fifReadable, eventsExists, rawIn, product,
                   productFile, megOut, nfArgs, freqs, libCalls, libArgs>>

\* The info message with product.json dumped at once.
InfoMessage_dump ==
    /\ pc = "info"
    /\ product' = Append(product, InfoMsg)
    /\ productFile' = [writes |-> productFile.writes + 1,
                       body |-> Append(product, InfoMsg)]
    /\ IF CommentsNotchRaises(config)
       THEN Raise("KeyError", "comments_notch")
       ELSE Goto("check_start")
    /\ UNCHANGED <<cfgFile, fifReadable, eventsExists, rawIn, config,
                   eventsOut, megOut, nfArgs, freqs, libCalls, libArgs>>

\* Lines 266-268
InfoMessage ==
    /\ pc = "info"
    /\ product' = Append(product, InfoMsg)
    /\ IF CommentsNotchRaises(config)
       THEN Raise("KeyError", "comments_notch")
       ELSE Goto("check_start")
    /\ UNCHANGED <<cfgFile, fifReadable, eventsExists, rawIn, config,
                   productFile, eventsOut, megOut, nfArgs, freqs, libCalls,
                   libArgs>>

\* Lines 272-278
CheckStart ==
    /\ pc = "check_start"
    /\ config' = CheckStartAssign(config)
    /\ IF CheckStartRaises(config)
       THEN Raise("ValueError", "check_start")
       ELSE Goto("normalize")
    /\ UNCHANGED <<cfgFile, fifReadable, eventsExists, rawIn, product,
                   productFile, eventsOut, megOut, nfArgs, freqs, libCalls,
                   libArgs>>

\* Lines 280-302
Normalize ==
    /\ pc = "normalize"
    /\ config' = NormalizeAll(config)
    /\ Goto("strip")
    /\ UNCHANGED <<cfgFile, fifReadable, eventsExists, rawIn, product,
                   productFile, eventsOut, megOut, nfArgs, freqs, libCalls,
                   libArgs>>

\* Lines 304-311
Strip ==
    /\ pc = "strip"
    /\ config' = StripKeys(config)
    /\ IF StripRaises(config)
       THEN Raise("KeyError", "del_injected")
       ELSE Goto("apply")
    /\ UNCHANGED <<cfgFile, fifReadable, eventsExists, rawIn, product,
                   productFile, eventsOut, megOut, nfArgs, freqs, libCalls,
                   libArgs>>

\* Lines 313-331: the call of notch_filter (lines 62-82 inlined) and, when it
\* returns, the success message and product.json.
ApplyFilter ==
    /\ pc = "apply"
    /\ IF ~BindOK(config)
       THEN /\ Raise("TypeError", "call_notch_filter")
            /\ UNCHANGED <<nfArgs, freqs, libCalls, libArgs, megOut, product,
                           productFile>>
       ELSE /\ nfArgs' = config
            /\ LET e == NotchFreqsError(config["param_freqs_specific_or_start"],
                                        config["param_freqs_end"],
                                        config["param_freqs_step"])
                   f == NotchFreqs(config["param_freqs_specific_or_start"],
                                   config["param_freqs_end"],
                                   config["param_freqs_step"])
               IN IF e # "none"
                  THEN /\ Raise(e, "np.arange")
                       /\ UNCHANGED <<freqs, libCalls, libArgs, megOut, product,
                                      productFile>>
                  ELSE /\ freqs' = f
                       /\ libCalls' = libCalls + 1
                       /\ libArgs' = LibArgsOf(config, f)
                       /\ \E ok \in BOOLEAN :
                            IF ok
                            THEN /\ megOut' = SavedFile(rawIn)
                                 /\ product' = Append(product, SuccessMsg)
                                 /\ productFile' =
                                        [writes |-> productFile.writes + 1,
                                         body |-> Append(product, SuccessMsg)]
                                 /\ Goto("done")
                            ELSE /\ Raise("LibraryError", "raw.notch_filter")
                                 /\ UNCHANGED <<megOut, product, productFile>>
    /\ UNCHANGED <<cfgFile, fifReadable, eventsExists, rawIn, config, eventsOut>>

Next ==
    \/ LoadConfig
    \/ ReadRaw
    \/ CopyEvents
    \/ InfoMessage
    \/ CheckStart
    \/ Normalize
    \/ Strip
    \/ ApplyFilter

Spec == Init /\ [][Next]_vars

----------------------------------------------------------------------------
(* notch_filter called directly *)

\* Line 62
NF_LoadData ==
    /\ pc = "nf_entry"
    /\ Goto("nf_freqs")
    /\ UNCHANGED <<cfgFile, fifReadable, eventsExists, rawIn, config, product,
                   productFile, eventsOut, megOut, nfArgs, freqs, libCalls,
                   libArgs>>

\* Lines 64-69
NF_Freqs ==
    /\ pc = "nf_freqs"
    /\ LET e == NotchFreqsError(nfArgs["param_freqs_specific_or_start"],
                                nfArgs["param_freqs_end"],
                                nfArgs["param_freqs_step"])
       IN IF e # "none"
          THEN Raise(e, "np.arange") /\ UNCHANGED freqs
          ELSE /\ freqs' = NotchFreqs(nfArgs["param_freqs_specific_or_start"],
                                      nfArgs["param_freqs_end"],
                                      nfArgs["param_freqs_step"])
               /\ Goto("nf_call")
    /\ UNCHANGED <<cfgFile, fifReadable, eventsExists, rawIn, config, product,
                   productFile, eventsOut, megOut, nfArgs, libCalls, libArgs>>

\* Lines 71-77: the library filters the recording or raises.
NF_LibCall ==
    /\ pc = "nf_call"
    /\ libCalls' = libCalls + 1
    /\ libArgs' = LibArgsOf(nfArgs, freqs)
    /\ \E ok \in BOOLEAN :
         IF ok THEN Goto("nf_save") ELSE Raise("LibraryError", "raw.notch_filter")
    /\ UNCHANGED <<cfgFile, fifReadable, eventsExists, rawIn, config, product,
                   productFile, eventsOut, megOut, nfArgs, freqs>>

\* Lines 79-82
NF_Save ==
    /\ pc = "nf_save"
    /\ megOut' = SavedFile(rawIn)
    /\ Goto("nf_return")
    /\ UNCHANGED <<cfgFile, fifReadable, eventsExists, rawIn, config, product,
                   productFile, eventsOut, nfArgs, freqs, libCalls, libArgs>>

NextNF ==
    \/ NF_LoadData
    \/ NF_Freqs
    \/ NF_LibCall
    \/ NF_Save

SpecNF == InitNF /\ [][NextNF]_vars

----------------------------------------------------------------------------
(* Properties *)

Terminated == pc \in {"done", "failed"}

CfgStart == cfgFile["param_freqs_specific_or_start"]
CfgMethod == cfgFile["param_method"]

\* config.json holds 'fif', 'events' and the parameters of notch_filter, no
\* more, and a start frequency unless the method detects the frequencies.
ValidMinimalConfig ==
    /\ DOMAIN cfgFile = {"fif", "events"} \cup NFParams
    /\ CfgStart # Empty \/ CfgMethod = PyStr("spectrum_fit")

HasSuccess(body) == \E i \in 1..Len(body) : body[i].type = "success"

\* C1: a run on a valid minimal config and a readable recording ends
\* completed: the library was called, meg.fif holds a recording of the input's
\* channel and sample counts, product.json holds a 'success' entry.
C1_EndToEnd ==
    (Terminated /\ fifReadable /\ ValidMinimalConfig) =>
        /\ pc = "done"
        /\ libCalls = 1
        /\ megOut = SavedFile(rawIn)
        /\ productFile.writes = 1
        /\ HasSuccess(productFile.body)

ArgStart == nfArgs["param_freqs_specific_or_start"]
ArgEnd == nfArgs["param_freqs_end"]
ArgStep == nfArgs["param_freqs_step"]

\* x lies before the end e in the direction of the step d
BeforeEnd(x, e, d) == IF d > 0 THEN x < e ELSE x > e

\* q is start, start + d, ... up to and excluding e
IsRange(q, start, e, d) ==
    /\ \A i \in 1..Len(q) : q[i] = start + (i - 1) * d /\ BeforeEnd(q[i], e, d)
    /\ ~BeforeEnd(start + Len(q) * d, e, d)

\* C2: the frequency target the library receives is the end-exclusive
\* arithmetic sequence from start by step when param_freqs_end is present
\* (60, 241, 60 gives 60, 120, 180, 240), and the scalar start when it is
\* absent, whatever param_freqs_step is.
C2_FreqTarget ==
    libCalls > 0 =>
        /\ ArgEnd # None =>
             /\ libArgs["freqs"].tag = "array"
             /\ IsRange(libArgs["freqs"].arr, ArgStart.num, ArgEnd.num,
                        IF ArgStep = None THEN 1 ELSE ArgStep.num)
        /\ ArgEnd = None => libArgs["freqs"] = ArgStart
        /\ (ArgStart = PyInt(60) /\ ArgEnd = PyInt(241) /\ ArgStep = PyInt(60))
             => libArgs["freqs"] = PyArray(<<60, 120, 180, 240>>)
        /\ (ArgStart = PyInt(50) /\ ArgEnd = None) => libArgs["freqs"] = PyInt(50)

C2_Witness ==
    /\ libCalls = 1
    /\ ArgStart = PyInt(60) /\ ArgEnd = PyInt(241) /\ ArgStep = PyInt(60)
    /\ libArgs["freqs"] = PyArray(<<60, 120, 180, 240>>)

\* C3: a run whose config has an absent start frequency and a method other
\* than spectrum_fit ends with the ValueError of the start-frequency check,
\* the library never called.
C3_ValueErrorBeforeFilter ==
    (Terminated /\ fifReadable /\ CfgStart = Empty
       /\ CfgMethod # PyStr("spectrum_fit")) =>
        /\ pc = "failed"
        /\ err = "ValueError"
        /\ libCalls = 0

SentinelParams ==
    {"param_freqs_end", "param_freqs_step", "param_picks", "param_widths",
     "param_iir_parameters", "param_mt_bandwidth"}

\* C4: at the call of notch_filter each of the six parameters holds None
\* under its own name when config.json held the empty string, and the value
\* of config.json otherwise.
C4_SentinelsNormalized ==
    pc = "apply" =>
        \A p \in SentinelParams :
            config[p] = (IF cfgFile[p] = Empty THEN None ELSE cfgFile[p])

\* C5: a run with an absent start frequency and method spectrum_fit, on a
\* readable recording and a config without platform keys, calls the library
\* with the frequency target None.
C5_SpectrumFitAutoDetect ==
    (Terminated /\ fifReadable /\ CfgStart = Empty
       /\ CfgMethod = PyStr("spectrum_fit")
       /\ DOMAIN cfgFile \cap InjectedKeys = {}) =>
        /\ libCalls = 1
        /\ libArgs["freqs"] = None

\* C6: with an absent start frequency and method spectrum_fit the
\* start-frequency check raises nothing and control passes to the
\* normalisations that follow it.
C6_SpectrumFitPassesCheck ==
    [][(/\ pc = "check_start"
        /\ config["param_freqs_specific_or_start"] = Empty
        /\ config["param_method"] = PyStr("spectrum_fit"))
       => (pc' = "normalize" /\ err' = "none")]_vars

C6_Witness ==
    /\ pc = "normalize"
    /\ err = "none"
    /\ CfgStart = Empty
    /\ CfgMethod = PyStr("spectrum_fit")

\* C7: whichever of the four platform keys config.json holds, the stripping
\* step raises nothing and none of them is among the keywords of the call of
\* notch_filter.
C7_InjectedStripped ==
    /\ errAt # "del_injected"
    /\ pc = "apply" => DOMAIN config \cap InjectedKeys = {}

\* C8: product.json is written at most once, only by a run that completed,
\* after the filter call returned, with the 'info' entry followed by the
\* 'success' entry; a run that failed raised an error and wrote no
\* product.json.
C8_ProductOutcome ==
    /\ productFile.writes <= 1
    /\ productFile.writes = 1 =>
         /\ pc = "done"
         /\ err = "none"
         /\ libCalls = 1
         /\ productFile.body = <<InfoMsg, SuccessMsg>>
    /\ pc = "done" => productFile.writes = 1
    /\ pc = "failed" => (err # "none" /\ productFile.writes = 0)

C8_Witness ==
    /\ pc = "failed"
    /\ err # "none"
    /\ product = <<InfoMsg>>
    /\ productFile.writes = 0

FilterParams ==
    SentinelParams \cup {"param_freqs_specific_or_start"}

StartFrequencyError ==
    pc = "failed" /\ err = "ValueError" /\ errAt = "check_start"

\* C10 as stated: a run that ends with the start-frequency error has written
\* no output file: no meg.fif, no events.tsv, no product.json.
C10_NothingWritten ==
    StartFrequencyError =>
        /\ ~megOut.written
        /\ ~eventsOut
        /\ productFile.writes = 0

\* C10 as amended: a run that ends with the start-frequency error has written
\* neither meg.fif nor product.json; it has copied events.tsv exactly when the
\* events source exists.
C10_NoFilterOutput ==
    StartFrequencyError =>
        /\ ~megOut.written
        /\ productFile.writes = 0
        /\ eventsOut <=> eventsExists

C10_Witness ==
    /\ StartFrequencyError
    /\ eventsExists
    /\ eventsOut
    /\ ~megOut.written

====
